---------------------------- MODULE Spec2Model ----------------------------
(***************************************************************************)
(* Hybrid retrieval of fastapi-askgmc/tools/Rag_retrived.py:               *)
(* hybrid_search loads the artifact bundle, asks the dense (faiss) and the *)
(* sparse (tf-idf) candidate source, fuses the two candidate lists under   *)
(* one of the policies equal / rrf / weighted and materializes the fused   *)
(* positions to corpus records (Spec).  SpecSparse follows the sparse     *)
(* source _sparse_scores_tfidf step by step; SpecSessions follows the      *)
(* session bookkeeping of fastapi-askgmc/main.py under two threads.        *)
(*                                                                         *)
(* Numbers.  Dense similarities are kept in units of 1/10 (-10..10 is      *)
(* [-1.0, 1.0]), sparse scores in units of 1, alpha in units of 1/5.  A    *)
(* score of a result is an exact fraction <<num, den>> with den > 0.       *)
(***************************************************************************)
EXTENDS Integers, Sequences, FiniteSets, TLC

(***************************************************************************)
(* Bounds of the exploration.                                              *)
(***************************************************************************)
MaxTopK == 3
MaxRankings == 12
MaxRequests == 2

\* corpus sizes explored; 9 is the first size whose last position no longer
\* fits the smallest hash table of a Python set (8 slots)
CorpusSizes == {1, 2, 3, 4, 9}

\* similarities a real neighbour can have (units of 1/10) and tf-idf scores
DenseSims == {-5, 5}
SparseScores == {0, 1}
AlphaFifths == {3, 5}
RrfKs == {1, 60}
Methods == {"equal", "rrf", "weighted", "bm25", "Equal"}

(***************************************************************************)
(* Generic helpers.                                                        *)
(***************************************************************************)
Min(a, b) == IF a <= b THEN a ELSE b
Max(a, b) == IF a >= b THEN a ELSE b
Range(s) == {s[j] : j \in 1..Len(s)}
\* a slice that keeps one element too many
TakeOneMore(s, n) == SubSeq(s, 1, Min(n + 1, Len(s)))
Take(s, n) == SubSeq(s, 1, Min(n, Len(s)))
Drop(s, n) == SubSeq(s, Min(n, Len(s)) + 1, Len(s))
IsInjective(s) == \A a, b \in 1..Len(s) : s[a] = s[b] => a = b
NonIncreasing(s) == \A a \in 1..Len(s) - 1 : s[a] >= s[a + 1]

\* fractions <<num, den>>, den > 0
FracLess(x, y) == x[1] * y[2] < y[1] * x[2]
FracEq(x, y) == x[1] * y[2] = y[1] * x[2]
FracAdd(x, y) == <<x[1] * y[2] + y[1] * x[2], x[2] * y[2]>>
FracZero == <<0, 1>>

(***************************************************************************)
(* Python containers as the interpreter implements them.                   *)
(***************************************************************************)

\* seq[i] of a Python list: negative indices count from the end; outside
\* -len..len-1 the access raises IndexError (modelled as <<>>)
PyIndex(s, i) ==
    IF 0 <= i /\ i < Len(s) THEN <<s[i + 1]>>
    ELSE IF i < 0 /\ -i <= Len(s) THEN <<s[Len(s) + i + 1]>>
    ELSE <<>>

\* {i: v for i, v in zip(idx, val)}: a later pair overwrites an earlier one
RECURSIVE DictFromZip(_, _)
DictFromZip(idx, val) ==
    IF Len(idx) = 0 \/ Len(val) = 0 THEN <<>>
    ELSE LET n == Min(Len(idx), Len(val))
             rest == DictFromZip(SubSeq(idx, 1, n - 1), SubSeq(val, 1, n - 1))
             k == idx[n]
         IN  IF \E j \in 1..Len(rest) : rest[j][1] = k
             THEN [j \in 1..Len(rest) |->
                     IF rest[j][1] = k THEN <<k, val[n]>> ELSE rest[j]]
             ELSE Append(rest, <<k, val[n]>>)

\* a dict is a sequence of <<key, value>> in insertion order
DictKeys(d) == [j \in 1..Len(d) |-> d[j][1]]
DictHas(d, k) == \E j \in 1..Len(d) : d[j][1] = k
\* a lookup that never finds the key
DictGetMissing(d, k, default) == default
DictGet(d, k, default) ==
    IF DictHas(d, k) THEN d[CHOOSE j \in 1..Len(d) : d[j][1] = k][2]
    ELSE default

\* {i: r for r, i in enumerate(idx, start=1)}
RankDict(idx) == DictFromZip(idx, [j \in 1..Len(idx) |-> j])

\* hash(int): -1 is reserved by the interpreter, hash(-1) = -2
PyHash(k) == IF k = -1 THEN -2 ELSE k

\* the probe perturbation is the hash as an unsigned 64-bit word, shifted
\* right by 5 for every new probe round.  A non-negative hash is kept as the
\* number itself; the word of hash -2 is 2^64 - 2, which after n >= 1
\* shifts is 2^(64 - 5n) - 1, kept as the count n.
PerturbInit(h) == IF h >= 0 THEN [neg |-> FALSE, v |-> h] ELSE [neg |-> TRUE, v |-> 0]
PerturbShift(p) == IF p.neg THEN [p EXCEPT !.v = Min(p.v + 1, 13)]
                   ELSE [p EXCEPT !.v = p.v \div 32]
PerturbLow(p, mask) ==
    IF ~p.neg THEN p.v % (mask + 1)
    ELSE IF p.v >= 13 THEN 0
    ELSE IF 64 - 5 * p.v >= 20 THEN mask
    ELSE Min(2 ^ (64 - 5 * p.v) - 1, mask)

EmptyTable(size) == [j \in 0..size - 1 |-> <<>>]
NewSet == [mask |-> 7, table |-> EmptyTable(8), fill |-> 0]

\* the slot where key is found or will be stored: up to 9 linear probes when
\* they fit below the end of the table, then the perturbed jump
RECURSIVE SetLookSlot(_, _, _, _, _)
SetLookSlot(table, mask, i, perturb, key) ==
    LET probes == IF i + 9 <= mask THEN 9 ELSE 0
        hits == {j \in i..i + probes : table[j] = <<>> \/ table[j] = <<key>>}
    IN  IF hits # {} THEN CHOOSE j \in hits : \A h \in hits : j <= h
        ELSE LET p == PerturbShift(perturb)
             IN  SetLookSlot(table, mask,
                             (i * 5 + 1 + PerturbLow(p, mask)) % (mask + 1), p, key)

SetSlot(table, mask, key) ==
    SetLookSlot(table, mask, PyHash(key) % (mask + 1), PerturbInit(PyHash(key)), key)

\* keys of a table in slot order: the order a for loop sees
RECURSIVE TableKeys(_, _, _)
TableKeys(table, j, mask) ==
    IF j > mask THEN <<>> ELSE table[j] \o TableKeys(table, j + 1, mask)

SetIter(so) == TableKeys(so.table, 0, so.mask)

RECURSIVE InsertAllClean(_, _, _)
InsertAllClean(table, mask, ks) ==
    IF ks = <<>> THEN table
    ELSE LET j == SetSlot(table, mask, Head(ks))
         IN  InsertAllClean([table EXCEPT ![j] = <<Head(ks)>>], mask, Tail(ks))

RECURSIVE GrowSize(_, _)
GrowSize(size, minused) == IF size <= minused THEN GrowSize(2 * size, minused) ELSE size

\* set_table_resize: a table of the first power of two above minused,
\* entries re-inserted in the old slot order
SetTableResize(so, minused) ==
    LET size == GrowSize(8, minused)
        ks == SetIter(so)
    IN  [mask |-> size - 1,
         table |-> InsertAllClean(EmptyTable(size), size - 1, ks),
         fill |-> Len(ks)]

\* set.add: store, then grow to 4 * used once the table is 3/5 full
SetAddEntry(so, key) ==
    LET j == SetSlot(so.table, so.mask, key)
    IN  IF so.table[j] = <<key>> THEN so
        ELSE LET s1 == [so EXCEPT !.table[j] = <<key>>, !.fill = so.fill + 1]
             IN  IF s1.fill * 5 < s1.mask * 3 THEN s1
                 ELSE SetTableResize(s1, s1.fill * 4)

RECURSIVE SetAddAll(_, _)
SetAddAll(so, ks) ==
    IF ks = <<>> THEN so ELSE SetAddAll(SetAddEntry(so, Head(ks)), Tail(ks))

\* set(iterable)
SetFromKeys(ks) == SetAddAll(NewSet, ks)

\* set_merge(so, other): pre-grow for the sum of the sizes, copy the table
\* when so is empty and of the same size, else insert in other's slot order
SetMerge(so, other) ==
    LET s1 == IF (so.fill + other.fill) * 5 >= so.mask * 3
              THEN SetTableResize(so, (so.fill + other.fill) * 2)
              ELSE so
    IN  IF s1.fill = 0 /\ s1.mask = other.mask THEN other
        ELSE IF s1.fill = 0
        THEN [s1 EXCEPT !.table = InsertAllClean(s1.table, s1.mask, SetIter(other)),
                        !.fill = other.fill]
        ELSE SetAddAll(s1, SetIter(other))

\* a | b: a copy of a, updated with b
SetUnion(a, b) == SetMerge(SetMerge(NewSet, a), b)


\* sorted(set): ascending
RECURSIVE SortedAsc(_)
SortedAsc(S) ==
    IF S = {} THEN <<>>
    ELSE LET m == CHOOSE x \in S : \A y \in S : x <= y
         IN  <<m>> \o SortedAsc(S \ {m})

\* a descending sort that puts a later element ahead of its equals
RECURSIVE InsertDescTiesFirst(_, _)
InsertDescTiesFirst(sorted, x) ==
    IF sorted = <<>> THEN <<x>>
    ELSE IF ~FracLess(x[2], Head(sorted)[2]) THEN <<x>> \o sorted
    ELSE <<Head(sorted)>> \o InsertDescTiesFirst(Tail(sorted), x)

\* list.sort(key=lambda x: x[1], reverse=True) on <<i, score>> pairs: the
\* sort is stable, equal scores keep the order they had before the sort
RECURSIVE InsertDesc(_, _)
InsertDesc(sorted, x) ==
    IF sorted = <<>> THEN <<x>>
    ELSE IF FracLess(Head(sorted)[2], x[2]) THEN <<x>> \o sorted
    ELSE <<Head(sorted)>> \o InsertDesc(Tail(sorted), x)

RECURSIVE SortByScoreDesc(_)
SortByScoreDesc(s) ==
    IF s = <<>> THEN <<>>
    ELSE InsertDesc(SortByScoreDesc(SubSeq(s, 1, Len(s) - 1)), s[Len(s)])

(***************************************************************************)
(* The corpus and the two candidate sources.                               *)
(***************************************************************************)

\* load_from_knowledge_csv: record idx of the bundle, one chunk per row
CorpusRecord(k) == [row_index |-> k, chunk_idx |-> 0]

\* the "<prefix>_info.json" of a corpus of n chunks, keyed 0..n-1
InfoOnDisk(n) == [k \in 0..n - 1 |-> CorpusRecord(k)]

\* keys = sorted(info.keys(), key=int)
SortedKeys(inf) == SortedAsc(DOMAIN inf)

\* similarity of a label faiss pads with when the index holds fewer than k
\* vectors: the distance is the largest float, 1 - D/2 is clipped to -1.0
PadLabel == -1
PadSim == -10

\* index.search(q, k) of an IndexFlatL2 of ntotal vectors: the min(k, ntotal)
\* nearest positions, nearest first, then labels -1 up to length k.  near is
\* the ranking <<position, similarity>> the index holds for the query.
FaissIdx(near, k) ==
    [j \in 1..k |-> IF j <= Len(near) THEN near[j][1] ELSE PadLabel]
FaissSim(near, k) ==
    [j \in 1..k |-> IF j <= Len(near) THEN near[j][2] ELSE PadSim]

\* rankings a source can answer with: m distinct corpus positions with
\* non-increasing scores drawn from vals
Rankings(n, m, vals) ==
    {r \in [1..m -> (0..n - 1) \X vals] :
        /\ IsInjective([j \in 1..m |-> r[j][1]])
        /\ NonIncreasing([j \in 1..m |-> r[j][2]])}

\* number of ordered selections of m out of n positions
RECURSIVE NumRankings(_, _)
NumRankings(n, m) == IF m = 0 THEN 1 ELSE n * NumRankings(n - 1, m - 1)

(***************************************************************************)
(* Fusion and materialization, lines 305-425.                              *)
(***************************************************************************)

\* rec = dict(info[keys[i]]); rec["retrieval"] = tag; rec["score"] = score
\* (pos is the fused position the record was materialized from)
Materialize(inf, ks, i, tag, score) ==
    [pos |-> i, rec |-> inf[PyIndex(ks, i)[1]], retrieval |-> tag, score |-> score]
CanMaterialize(ks, i) == PyIndex(ks, i) # <<>>

\* the two fields written into the stored record itself
InfoAfterWritesInPlace(inf, ks, res) ==
    [key \in DOMAIN inf |->
        LET hits == {j \in 1..Len(res) : PyIndex(ks, res[j].pos) = <<key>>}
        IN  IF hits = {} THEN inf[key]
            ELSE LET j == CHOOSE h \in hits : \A g \in hits : g <= h
                 IN  [row_index |-> inf[key].row_index,
                      chunk_idx |-> inf[key].chunk_idx,
                      retrieval |-> res[j].retrieval,
                      score |-> res[j].score]]

\* info after the results res were materialized: rec = dict(info[keys[i]])
\* is a new dict, rec["retrieval"] and rec["score"] are written to it and
\* the stored records stay as loaded
InfoAfterWrites(inf, ks, res) == inf

\* the dense quota rounded down
CeilHalfRoundedDown(k) == k \div 2
CeilHalf(k) == (k + 1) \div 2
\* no sparse quota at all
FloorHalfNone(k) == 0
FloorHalf(k) == k \div 2

\* a seen set that survives from the previous call
SeenInitStale(stale) == stale

\* seen = set() at the start of the equal branch
SeenInit(stale) == {}

\* one of the four for loops of the equal branch.  primary: the loop returns
\* as soon as top_k results exist; otherwise the loop breaks before taking a
\* candidate once top_k results exist.
RECURSIVE EqualLoop(_, _, _, _, _, _, _, _)
EqualLoop(acc, cands, tag, smap, unit, primary, k, art) ==
    IF acc.returned \/ acc.raised \/ cands = <<>> THEN acc
    ELSE LET i == Head(cands) IN
         IF ~primary /\ Len(acc.results) >= k THEN acc
         ELSE IF i \in acc.seen
         THEN EqualLoop(acc, Tail(cands), tag, smap, unit, primary, k, art)
         ELSE IF ~CanMaterialize(art.keys, i)
         THEN [acc EXCEPT !.seen = @ \cup {i}, !.raised = TRUE]
         ELSE LET r == Materialize(art.info, art.keys, i, tag,
                                   <<DictGet(smap, i, 0), unit>>)
                  a1 == [acc EXCEPT !.seen = @ \cup {i},
                                    !.results = Append(@, r)]
              IN  IF primary /\ Len(a1.results) >= k
                  THEN [a1 EXCEPT !.returned = TRUE]
                  ELSE EqualLoop(a1, Tail(cands), tag, smap, unit, primary, k, art)

\* method == "equal"
FuseEqual(d_idx, d_sim, s_idx, s_sim, k, art, stale) ==
    LET dense_map == DictFromZip(d_idx, d_sim)
        sparse_map == DictFromZip(s_idx, s_sim)
        k_dense == CeilHalf(k)
        k_sparse == FloorHalf(k)
        a0 == [results |-> <<>>, seen |-> SeenInit(stale),
               returned |-> FALSE, raised |-> FALSE]
        a1 == EqualLoop(a0, Take(d_idx, k_dense), "dense", dense_map, 10, TRUE, k, art)
        a2 == EqualLoop(a1, Take(s_idx, k_sparse), "sparse", sparse_map, 1, TRUE, k, art)
        a3 == EqualLoop(a2, Drop(d_idx, k_dense), "dense", dense_map, 10, FALSE, k, art)
        a4 == EqualLoop(a3, Drop(s_idx, k_sparse), "sparse", sparse_map, 1, FALSE, k, art)
    IN  [a4 EXCEPT !.results = Take(@, k)]

\* the loop "for i, score in fused[:top_k]" of the rrf and weighted branches
RECURSIVE MaterializeAll(_, _, _)
MaterializeAll(acc, pairs, tagart) ==
    IF acc.raised \/ pairs = <<>> THEN acc
    ELSE LET i == Head(pairs)[1] IN
         IF ~CanMaterialize(tagart.keys, i) THEN [acc EXCEPT !.raised = TRUE]
         ELSE MaterializeAll(
                [acc EXCEPT !.results =
                    Append(@, Materialize(tagart.info, tagart.keys, i,
                                          tagart.tag, Head(pairs)[2]))],
                Tail(pairs), tagart)

\* the order in which the rrf branch visits the union of the ranked positions
RrfUnionOrder(dense_rank, sparse_rank) ==
    SetIter(SetUnion(SetFromKeys(DictKeys(dense_rank)),
                     SetFromKeys(DictKeys(sparse_rank))))

\* ranks counted from 0
RrfScoreZeroBased(dense_rank, sparse_rank, kk, i) ==
    LET s0 == FracZero
        s1 == IF DictHas(dense_rank, i)
              THEN FracAdd(s0, <<1, kk + DictGet(dense_rank, i, 0) - 1>>) ELSE s0
    IN  IF DictHas(sparse_rank, i)
        THEN FracAdd(s1, <<1, kk + DictGet(sparse_rank, i, 0) - 1>>) ELSE s1

\* score of position i: 1/(rrf_k + rank) for each list that ranks it
RrfScore(dense_rank, sparse_rank, kk, i) ==
    LET s0 == FracZero
        s1 == IF DictHas(dense_rank, i)
              THEN FracAdd(s0, <<1, kk + DictGet(dense_rank, i, 0)>>) ELSE s0
    IN  IF DictHas(sparse_rank, i)
        THEN FracAdd(s1, <<1, kk + DictGet(sparse_rank, i, 0)>>) ELSE s1

\* fused, after fused.sort(key=score, reverse=True)
RrfFused(d_idx, s_idx, kk) ==
    LET dense_rank == RankDict(d_idx)
        sparse_rank == RankDict(s_idx)
        order == RrfUnionOrder(dense_rank, sparse_rank)
    IN  SortByScoreDesc([j \in 1..Len(order) |->
            <<order[j], RrfScore(dense_rank, sparse_rank, kk, order[j])>>])

\* method == "rrf"
FuseRrf(d_idx, s_idx, k, kk, art) ==
    MaterializeAll([results |-> <<>>, seen |-> {}, returned |-> TRUE, raised |-> FALSE],
                   Take(RrfFused(d_idx, s_idx, kk), k),
                   [info |-> art.info, keys |-> art.keys, tag |-> "rrf"])

\* cand = sorted(set(dense_map.keys()) | set(sparse_map.keys()))
WeightedCand(dense_map, sparse_map) ==
    SortedAsc(Range(DictKeys(dense_map)) \cup Range(DictKeys(sparse_map)))

SeqMin(x) == CHOOSE v \in Range(x) : \A w \in Range(x) : v <= w
SeqMax(x) == CHOOSE v \in Range(x) : \A w \in Range(x) : v >= w

\* minmax(x): (x - lo) / (hi - lo), all zero when hi - lo < 1e-12.  The
\* scores lie on a grid of 1/10 resp. 1, so the test is hi - lo < 1 there.
MinMax(x) ==
    IF Len(x) = 0 THEN x
    ELSE LET lo == SeqMin(x)
             hi == SeqMax(x)
         IN  IF hi - lo < 1 THEN [j \in 1..Len(x) |-> <<0, 1>>]
             ELSE [j \in 1..Len(x) |-> <<x[j] - lo, hi - lo>>]

\* alpha * d + (1 - alpha) * s with alpha = a5 / 5
WeightedScore(a5, d, s) ==
    <<a5 * d[1] * s[2] + (5 - a5) * s[1] * d[2], 5 * d[2] * s[2]>>

\* d_norm and s_norm over cand
WeightedDNorm(dense_map, cand) ==
    MinMax([j \in 1..Len(cand) |-> DictGet(dense_map, cand[j], 0)])
WeightedSNorm(sparse_map, cand) ==
    MinMax([j \in 1..Len(cand) |-> DictGet(sparse_map, cand[j], 0)])

\* fused = sorted(zip(cand, fused_scores), key=score, reverse=True)
WeightedFused(d_idx, d_sim, s_idx, s_sim, a5) ==
    LET dense_map == DictFromZip(d_idx, d_sim)
        sparse_map == DictFromZip(s_idx, s_sim)
        cand == WeightedCand(dense_map, sparse_map)
        d_norm == WeightedDNorm(dense_map, cand)
        s_norm == WeightedSNorm(sparse_map, cand)
    IN  SortByScoreDesc([j \in 1..Len(cand) |->
            <<cand[j], WeightedScore(a5, d_norm[j], s_norm[j])>>])

\* method == "weighted"
FuseWeighted(d_idx, d_sim, s_idx, s_sim, k, a5, art) ==
    MaterializeAll([results |-> <<>>, seen |-> {}, returned |-> TRUE, raised |-> FALSE],
                   Take(WeightedFused(d_idx, d_sim, s_idx, s_sim, a5), k),
                   [info |-> art.info, keys |-> art.keys, tag |-> "weighted"])


(***************************************************************************)
(* State.                                                                  *)
(***************************************************************************)
VARIABLES
    bundle,           \* the artifact bundle on disk: info json, index size
    pc,               \* where the current call of hybrid_search stands
                      \* ("start": no call yet, "idle": between calls)
    call_no,          \* 0: no call, 1: first call, 2: the same call repeated
    top_k, method, alpha, rrf_k,        \* parameters of the call
    k_dense_fetch, k_sparse_fetch,
    info, keys,       \* load_rag_artifacts
    near, lex,        \* what the index and the tf-idf model answer the query
    dense_idx_list, dense_sim_list, sparse_idx_list, sparse_sim_list,
    seen, results,    \* locals of the fusion
    outcome,          \* "none", "returned", "ValueError", "IndexError"
    first,            \* lists and result of call 1, kept for call 2
    scores, idx,      \* locals of _sparse_scores_tfidf
    conversation_histories,     \* main.py: session id -> its history list
    conversation_timestamps,    \* main.py: session id -> time of last use
    heap,             \* the list objects histories refer to
    threads,          \* the request handler and the pruning thread
    max_turns         \* MAX_IN_MEMORY_TURNS of the deployment

params == <<top_k, method, alpha, rrf_k, k_dense_fetch, k_sparse_fetch>>
loaded == <<info, keys>>
lists == <<dense_idx_list, dense_sim_list, sparse_idx_list, sparse_sim_list>>
tfidf == <<scores, idx>>
sessions == <<conversation_histories, conversation_timestamps, heap, threads,
              max_turns>>
vars == <<bundle, pc, call_no, params, loaded, near, lex, lists, seen, results,
          outcome, first, tfidf, sessions>>

NoFirst == [dense_idx |-> <<>>, sparse_idx |-> <<>>, dense_sim |-> <<>>,
            sparse_sim |-> <<>>, results |-> <<>>, outcome |-> "none"]

Init ==
    /\ \E n \in CorpusSizes : bundle = [info |-> InfoOnDisk(n), ntotal |-> n]
    /\ pc = "start"
    /\ call_no = 0
    /\ top_k = 0 /\ method = "" /\ alpha = 0 /\ rrf_k = 0
    /\ k_dense_fetch = 0 /\ k_sparse_fetch = 0
    /\ info = <<>> /\ keys = <<>>
    /\ near = <<>> /\ lex = <<>>
    /\ dense_idx_list = <<>> /\ dense_sim_list = <<>>
    /\ sparse_idx_list = <<>> /\ sparse_sim_list = <<>>
    /\ seen = {} /\ results = <<>>
    /\ outcome = "none"
    /\ first = NoFirst
    /\ scores = <<>> /\ idx = <<>>
    /\ conversation_histories = <<>> /\ conversation_timestamps = <<>>
    /\ heap = <<>> /\ threads = <<>> /\ max_turns = 0

\* k_dense_fetch = max(top_k_dense, top_k); k_sparse_fetch likewise
FetchCount(top_k_x, k) == Max(top_k_x, k)

\* the calls explored: at most MaxRankings candidate orders per source
Explored(n, kd, ks) ==
    /\ NumRankings(n, Min(n, kd)) <= MaxRankings
    /\ NumRankings(n, Min(n, ks)) <= MaxRankings

(***************************************************************************)
(* hybrid_search, lines 290-295: load the bundle, fix the fetch counts.    *)
(***************************************************************************)
HybridSearch ==
    /\ pc \in {"start", "idle"}
    /\ \E k \in 0..MaxTopK, kd \in 1..MaxTopK, ks \in 0..MaxTopK, m \in Methods :
       \E a \in (IF m = "weighted" THEN AlphaFifths ELSE {3}),
          kk \in (IF m = "rrf" THEN RrfKs ELSE {60}) :
          /\ Explored(bundle.ntotal, FetchCount(kd, k), FetchCount(ks, k))
          /\ top_k' = k /\ method' = m /\ alpha' = a /\ rrf_k' = kk
          /\ k_dense_fetch' = FetchCount(kd, k)
          /\ k_sparse_fetch' = FetchCount(ks, k)
    /\ info' = bundle.info
    /\ keys' = SortedKeys(bundle.info)
    /\ call_no' = 1
    /\ pc' = "dense"
    /\ outcome' = "none"
    /\ UNCHANGED <<bundle, near, lex, lists, seen, results, first>>
    /\ UNCHANGED <<tfidf, sessions>>

\* the caller repeats the call with the same arguments
HybridSearchAgain ==
    /\ pc = "done"
    /\ call_no = 1
    /\ first' = [dense_idx |-> dense_idx_list, sparse_idx |-> sparse_idx_list,
                 dense_sim |-> dense_sim_list, sparse_sim |-> sparse_sim_list,
                 results |-> results, outcome |-> outcome]
    /\ info' = bundle.info
    /\ keys' = SortedKeys(bundle.info)
    /\ call_no' = 2
    /\ pc' = "dense"
    /\ outcome' = "none"
    /\ UNCHANGED <<bundle, params, near, lex, lists, seen, results>>
    /\ UNCHANGED <<tfidf, sessions>>

\* _dense_scores_faiss, lines 297, 300-301
DenseScores ==
    /\ pc = "dense"
    /\ \E r \in (IF call_no = 1
                 THEN Rankings(bundle.ntotal, Min(bundle.ntotal, k_dense_fetch), DenseSims)
                 ELSE {near}) :
          /\ near' = r
          /\ dense_idx_list' = FaissIdx(r, k_dense_fetch)
          /\ dense_sim_list' = FaissSim(r, k_dense_fetch)
    /\ pc' = "sparse"
    /\ UNCHANGED <<bundle, call_no, params, loaded, lex, sparse_idx_list,
                   sparse_sim_list, seen, results, outcome, first>>
    /\ UNCHANGED <<tfidf, sessions>>

\* _sparse_scores_tfidf, lines 298, 302-303: min(k, N) positions, best first
DrawnFrom(r, j) == [i \in 1..Len(r) |-> r[i][j]]

SparseScoresTfidf ==
    /\ pc = "sparse"
    /\ \E r \in (IF call_no = 1
                 THEN Rankings(bundle.ntotal, Min(bundle.ntotal, k_sparse_fetch), SparseScores)
                 ELSE {lex}) :
          /\ lex' = r
          /\ sparse_idx_list' = DrawnFrom(r, 1)
          /\ sparse_sim_list' = DrawnFrom(r, 2)
    /\ pc' = "fuse"
    /\ UNCHANGED <<bundle, call_no, params, loaded, near, dense_idx_list,
                   dense_sim_list, seen, results, outcome, first>>
    /\ UNCHANGED <<tfidf, sessions>>

(***************************************************************************)
(* The fusion branches, lines 305-425.                                     *)
(***************************************************************************)

\* a chain that treats every unknown method as "equal"
BranchFallsBack(m) ==
    IF m = "rrf" THEN "rrf"
    ELSE IF m = "weighted" THEN "weighted"
    ELSE "equal"

\* the chain if method == "equal" / "rrf" / "weighted", else the raise of
\* line 425: the branch a method string selects, compared character by
\* character
Branch(m) ==
    IF m = "equal" THEN "equal"
    ELSE IF m = "rrf" THEN "rrf"
    ELSE IF m = "weighted" THEN "weighted"
    ELSE "raise"

Art == [info |-> info, keys |-> keys]

\* a branch ends the call: its result list, or the IndexError of info[keys[i]]
Finish(acc) ==
    /\ seen' = acc.seen
    /\ results' = IF acc.raised THEN <<>> ELSE acc.results
    /\ outcome' = IF acc.raised THEN "IndexError" ELSE "returned"
    /\ info' = InfoAfterWrites(info, keys, acc.results)
    /\ pc' = "done"
    /\ UNCHANGED <<bundle, call_no, params, keys, near, lex, lists, first>>
    /\ UNCHANGED <<tfidf, sessions>>

Equal ==
    /\ pc = "fuse"
    /\ Branch(method) = "equal"
    /\ Finish(FuseEqual(dense_idx_list, dense_sim_list, sparse_idx_list,
                        sparse_sim_list, top_k, Art, seen))

Rrf ==
    /\ pc = "fuse"
    /\ Branch(method) = "rrf"
    /\ Finish([FuseRrf(dense_idx_list, sparse_idx_list, top_k, rrf_k, Art)
                 EXCEPT !.seen = seen])

Weighted ==
    /\ pc = "fuse"
    /\ Branch(method) = "weighted"
    /\ Finish([FuseWeighted(dense_idx_list, dense_sim_list, sparse_idx_list,
                            sparse_sim_list, top_k, alpha, Art)
                 EXCEPT !.seen = seen])

\* raise ValueError('method must be one of: ...'), line 425
InvalidMethod ==
    /\ pc = "fuse"
    /\ Branch(method) = "raise"
    /\ outcome' = "ValueError"
    /\ results' = <<>>
    /\ pc' = "done"
    /\ UNCHANGED <<bundle, call_no, params, loaded, near, lex, lists, seen, first>>
    /\ UNCHANGED <<tfidf, sessions>>

\* the caller is done with the query; the locals of the call are gone
Forget ==
    /\ pc = "done"
    /\ call_no = 2
    /\ pc' = "idle"
    /\ call_no' = 0
    /\ top_k' = 0 /\ method' = "" /\ alpha' = 0 /\ rrf_k' = 0
    /\ k_dense_fetch' = 0 /\ k_sparse_fetch' = 0
    /\ info' = <<>> /\ keys' = <<>>
    /\ near' = <<>> /\ lex' = <<>>
    /\ dense_idx_list' = <<>> /\ dense_sim_list' = <<>>
    /\ sparse_idx_list' = <<>> /\ sparse_sim_list' = <<>>
    /\ seen' = {} /\ results' = <<>>
    /\ outcome' = "none"
    /\ first' = NoFirst
    /\ UNCHANGED <<bundle, tfidf, sessions>>

Next ==
    \/ HybridSearch
    \/ HybridSearchAgain
    \/ DenseScores
    \/ SparseScoresTfidf
    \/ Equal
    \/ Rrf
    \/ Weighted
    \/ InvalidMethod
    \/ Forget

Spec == Init /\ [][Next]_vars

(***************************************************************************)
(* _sparse_scores_tfidf, lines 246-265, step by step.  An array is a       *)
(* sequence; position i of the corpus is element i + 1.                    *)
(***************************************************************************)

\* dot products of the query with the rows of the tf-idf matrix
TfidfScores == {0, 1, 2}

\* index arrays: the orders of the positions 0..n-1
Perms(n) == {p \in [1..n -> 0..n - 1] : IsInjective(p)}

\* arr[ix] of numpy
Gather(arr, ix) == [j \in 1..Len(ix) |-> arr[ix[j] + 1]]

\* -scores
Negated(x) == [j \in 1..Len(x) |-> -x[j]]

\* np.argsort(a), default kind (quicksort, not stable): an index array that
\* sorts a ascending; the order of equal elements is the library's choice
ArgSorts(a) ==
    {p \in Perms(Len(a)) :
        \A j \in 1..Len(a) - 1 : a[p[j] + 1] <= a[p[j + 1] + 1]}

\* np.argpartition(a, kth), 0 <= kth < len(a): element kth is the one a
\* sort would put there, no larger element before it and no smaller one
\* after it; the order inside the two parts is the library's choice
ArgPartitions(a, kth) ==
    {p \in Perms(Len(a)) :
        \A j \in 1..Len(a) :
           /\ j < kth + 1 => a[p[j] + 1] <= a[p[kth + 1] + 1]
           /\ j > kth + 1 => a[p[j] + 1] >= a[p[kth + 1] + 1]}

SparseFrame ==
    UNCHANGED <<bundle, call_no, top_k, method, alpha, rrf_k, k_dense_fetch,
                loaded, near, lex, dense_idx_list, dense_sim_list, seen,
                results, outcome, first, sessions>>

InitSparse ==
    /\ Init
    /\ bundle.ntotal <= MaxTopK + 1

\* lines 256-257: scores of the query against the N rows
SparseQuery ==
    /\ pc \in {"start", "idle"}
    /\ \E k \in 0..MaxTopK + 1, v \in [1..bundle.ntotal -> TfidfScores] :
          /\ k_sparse_fetch' = k
          /\ scores' = v
    /\ idx' = <<>>
    /\ pc' = "scored"
    /\ UNCHANGED <<sparse_idx_list, sparse_sim_list>>
    /\ SparseFrame

\* line 260: top_k_sparse >= len(scores), idx = np.argsort(-scores)
ArgSortAll ==
    /\ pc = "scored"
    /\ k_sparse_fetch >= Len(scores)
    /\ \E p \in ArgSorts(Negated(scores)) : idx' = p
    /\ pc' = "ranked"
    /\ UNCHANGED <<k_sparse_fetch, scores, sparse_idx_list, sparse_sim_list>>
    /\ SparseFrame

\* line 262: idx = np.argpartition(-scores, top_k_sparse)[:top_k_sparse]
ArgPartition ==
    /\ pc = "scored"
    /\ k_sparse_fetch < Len(scores)
    /\ \E p \in ArgPartitions(Negated(scores), k_sparse_fetch) :
          idx' = Take(p, k_sparse_fetch)
    /\ pc' = "selected"
    /\ UNCHANGED <<k_sparse_fetch, scores, sparse_idx_list, sparse_sim_list>>
    /\ SparseFrame

\* line 263: idx = idx[np.argsort(-scores[idx])]
SortSelected ==
    /\ pc = "selected"
    /\ \E q \in ArgSorts(Negated(Gather(scores, idx))) : idx' = Gather(idx, q)
    /\ pc' = "ranked"
    /\ UNCHANGED <<k_sparse_fetch, scores, sparse_idx_list, sparse_sim_list>>
    /\ SparseFrame

\* line 265: return idx.astype(int), scores[idx].astype(float)
SparseReturn ==
    /\ pc = "ranked"
    /\ sparse_idx_list' = idx
    /\ sparse_sim_list' = Gather(scores, idx)
    /\ pc' = "done"
    /\ UNCHANGED <<k_sparse_fetch, scores, idx>>
    /\ SparseFrame

\* the arrays of the call are gone
SparseForget ==
    /\ pc = "done"
    /\ k_sparse_fetch' = 0
    /\ scores' = <<>> /\ idx' = <<>>
    /\ sparse_idx_list' = <<>> /\ sparse_sim_list' = <<>>
    /\ pc' = "idle"
    /\ SparseFrame

NextSparse ==
    \/ SparseQuery
    \/ ArgSortAll
    \/ ArgPartition
    \/ SortSelected
    \/ SparseReturn
    \/ SparseForget

SpecSparse == InitSparse /\ [][NextSparse]_vars

(***************************************************************************)
(* Session bookkeeping of main.py, lines 321-366 and 542-552.  The request *)
(* handler runs in a worker thread (or, for the webhook, on the event      *)
(* loop), the prune loop and /healthcheck in another thread; a step is one *)
(* dictionary or list operation.                                           *)
(***************************************************************************)
SessionIds == {"u1", "u2"}
MaxInMemoryTurns == {0, 1}
SystemMsg == [role |-> "system", content |-> 0]

\* d[k] = v and d.pop(k, None) on a dict kept as a function
SessSet(d, k, v) == [x \in DOMAIN d \cup {k} |-> IF x = k THEN v ELSE d[x]]
SessPop(d, k) == [x \in DOMAIN d \ {k} |-> d[x]]

\* [system_msg] + history[1:][-MAX_IN_MEMORY_TURNS:]
TrimmedHistory(h, n) ==
    <<h[1]>> \o SubSeq(h, Max(2, Len(h) - n + 1), Len(h))

IdleThread ==
    [pc |-> "idle", after |-> "idle", session_id |-> "", msg |-> SystemMsg,
     history |-> 0, expired |-> {}, sid |-> "", hist |-> 0,
     requests |-> 0, error |-> "none", lost |-> FALSE]

SessionFrame ==
    UNCHANGED <<bundle, pc, call_no, params, loaded, near, lex, lists, seen,
                results, outcome, first, tfidf, max_turns>>

InitSessions ==
    /\ bundle = [info |-> InfoOnDisk(1), ntotal |-> 1]
    /\ pc = "start"
    /\ call_no = 0
    /\ top_k = 0 /\ method = "" /\ alpha = 0 /\ rrf_k = 0
    /\ k_dense_fetch = 0 /\ k_sparse_fetch = 0
    /\ info = <<>> /\ keys = <<>>
    /\ near = <<>> /\ lex = <<>>
    /\ dense_idx_list = <<>> /\ dense_sim_list = <<>>
    /\ sparse_idx_list = <<>> /\ sparse_sim_list = <<>>
    /\ seen = {} /\ results = <<>>
    /\ outcome = "none"
    /\ first = NoFirst
    /\ scores = <<>> /\ idx = <<>>
    /\ conversation_histories = <<>> /\ conversation_timestamps = <<>>
    /\ heap = <<>>
    /\ threads = [t \in {"handler", "pruner"} |-> IdleThread]
    /\ max_turns \in MaxInMemoryTurns

\* thread t moves on: its record becomes th
Step(t, th) == threads' = [threads EXCEPT ![t] = th]

\* query_agent, lines 543-552: prune, then answer (and append)
QueryAgent ==
    /\ threads["handler"].pc = "idle"
    /\ threads["handler"].requests < MaxRequests
    /\ \E s \in SessionIds :
          Step("handler", [threads["handler"] EXCEPT
                 !.pc = "prune_scan", !.after = "ensure", !.session_id = s,
                 !.requests = @ + 1,
                 !.msg = [role |-> "user", content |-> threads["handler"].requests + 1]])
    /\ UNCHANGED <<conversation_histories, conversation_timestamps, heap>>
    /\ SessionFrame

\* line_webhook_post, lines 560-589: answer (and append) without pruning
LineWebhookPost ==
    /\ threads["handler"].pc = "idle"
    /\ threads["handler"].requests < MaxRequests
    /\ \E s \in SessionIds :
          Step("handler", [threads["handler"] EXCEPT
                 !.pc = "ensure", !.session_id = s,
                 !.requests = @ + 1,
                 !.msg = [role |-> "user", content |-> threads["handler"].requests + 1]])
    /\ UNCHANGED <<conversation_histories, conversation_timestamps, heap>>
    /\ SessionFrame

\* _prune_loop, line 359, or healthcheck, line 525
PruneLoop ==
    /\ threads["pruner"].pc = "idle"
    /\ Step("pruner", [threads["pruner"] EXCEPT !.pc = "prune_scan", !.after = "idle"])
    /\ UNCHANGED <<conversation_histories, conversation_timestamps, heap>>
    /\ SessionFrame

\* sessions nobody used for SESSION_TIMEOUT_MIN minutes
TimePasses ==
    /\ threads["handler"].pc = "idle"
    /\ \E s \in DOMAIN conversation_timestamps : conversation_timestamps[s] = "fresh"
    /\ conversation_timestamps' = [s \in DOMAIN conversation_timestamps |-> "stale"]
    /\ UNCHANGED <<conversation_histories, heap, threads>>
    /\ SessionFrame

\* _prune_expired_sessions, lines 344-348: the expired ids of a snapshot
PruneScan(t) ==
    /\ threads[t].pc = "prune_scan"
    /\ Step(t, [threads[t] EXCEPT
              !.pc = "prune_next",
              !.expired = {s \in DOMAIN conversation_timestamps :
                              conversation_timestamps[s] = "stale"}])
    /\ UNCHANGED <<conversation_histories, conversation_timestamps, heap>>
    /\ SessionFrame

\* line 349: for sid in expired
PruneNext(t) ==
    /\ threads[t].pc = "prune_next"
    /\ IF threads[t].expired = {}
       THEN Step(t, [threads[t] EXCEPT !.pc = threads[t].after, !.after = "idle"])
       ELSE \E s \in threads[t].expired :
               Step(t, [threads[t] EXCEPT !.pc = "prune_get", !.sid = s,
                                          !.expired = @ \ {s}])
    /\ UNCHANGED <<conversation_histories, conversation_timestamps, heap>>
    /\ SessionFrame

\* lines 350-352: hist = conversation_histories.get(sid, []), snapshot
PruneGet(t) ==
    /\ threads[t].pc = "prune_get"
    /\ Step(t, [threads[t] EXCEPT
              !.pc = "prune_pop_history",
              !.hist = IF threads[t].sid \in DOMAIN conversation_histories
                       THEN conversation_histories[threads[t].sid] ELSE 0])
    /\ UNCHANGED <<conversation_histories, conversation_timestamps, heap>>
    /\ SessionFrame

\* line 353: conversation_histories.pop(sid, None)
PrunePopHistory(t) ==
    /\ threads[t].pc = "prune_pop_history"
    /\ conversation_histories' = SessPop(conversation_histories, threads[t].sid)
    /\ Step(t, [threads[t] EXCEPT !.pc = "prune_pop_timestamp"])
    /\ UNCHANGED <<conversation_timestamps, heap>>
    /\ SessionFrame

\* line 354: conversation_timestamps.pop(sid, None)
PrunePopTimestamp(t) ==
    /\ threads[t].pc = "prune_pop_timestamp"
    /\ conversation_timestamps' = SessPop(conversation_timestamps, threads[t].sid)
    /\ Step(t, [threads[t] EXCEPT !.pc = "prune_next"])
    /\ UNCHANGED <<conversation_histories, heap>>
    /\ SessionFrame

\* _ensure_session, line 322: if session_id not in conversation_histories
EnsureSession ==
    LET th == threads["handler"] IN
    /\ th.pc = "ensure"
    /\ Step("handler", [th EXCEPT !.pc =
              IF th.session_id \in DOMAIN conversation_histories
              THEN "stamp" ELSE "create"])
    /\ UNCHANGED <<conversation_histories, conversation_timestamps, heap>>
    /\ SessionFrame

\* line 323: conversation_histories[session_id] = [system message]
CreateHistory ==
    LET th == threads["handler"] IN
    /\ th.pc = "create"
    /\ heap' = Append(heap, <<SystemMsg>>)
    /\ conversation_histories' =
          SessSet(conversation_histories, th.session_id, Len(heap) + 1)
    /\ Step("handler", [th EXCEPT !.pc = "stamp"])
    /\ UNCHANGED conversation_timestamps
    /\ SessionFrame

\* line 325: conversation_timestamps[session_id] = datetime.now()
StampSession ==
    LET th == threads["handler"] IN
    /\ th.pc = "stamp"
    /\ conversation_timestamps' =
          SessSet(conversation_timestamps, th.session_id, "fresh")
    /\ Step("handler", [th EXCEPT !.pc = "lookup"])
    /\ UNCHANGED <<conversation_histories, heap>>
    /\ SessionFrame

\* _append_history, line 330: history = conversation_histories[session_id];
\* a missing key raises KeyError and ends the request
LookupHistory ==
    LET th == threads["handler"] IN
    /\ th.pc = "lookup"
    /\ IF th.session_id \in DOMAIN conversation_histories
       THEN Step("handler", [th EXCEPT
                   !.pc = "append",
                   !.history = conversation_histories[th.session_id]])
       ELSE Step("handler", [th EXCEPT !.pc = "idle", !.error = "KeyError"])
    /\ UNCHANGED <<conversation_histories, conversation_timestamps, heap>>
    /\ SessionFrame

\* line 331: history.append(message)
AppendMessage ==
    LET th == threads["handler"] IN
    /\ th.pc = "append"
    /\ heap' = [heap EXCEPT ![th.history] = Append(@, th.msg)]
    /\ Step("handler", [th EXCEPT !.pc = IF max_turns > 0 THEN "trim" ELSE "restamp"])
    /\ UNCHANGED <<conversation_histories, conversation_timestamps>>
    /\ SessionFrame

\* lines 334-338: a trimmed copy replaces the stored list
TrimHistory ==
    LET th == threads["handler"] IN
    /\ th.pc = "trim"
    /\ heap' = Append(heap, TrimmedHistory(heap[th.history], max_turns))
    /\ conversation_histories' =
          SessSet(conversation_histories, th.session_id, Len(heap) + 1)
    /\ Step("handler", [th EXCEPT !.pc = "restamp", !.history = Len(heap) + 1])
    /\ UNCHANGED conversation_timestamps
    /\ SessionFrame

\* what _append_history promises at its return: the session exists, its
\* list starts with the system message and ends with the message
Kept(th) ==
    /\ th.session_id \in DOMAIN conversation_histories
    /\ LET h == heap[conversation_histories[th.session_id]]
       IN  h[1] = SystemMsg /\ h[Len(h)] = th.msg

\* lines 340-341: the timestamp is renewed and the call returns
RestampSession ==
    LET th == threads["handler"] IN
    /\ th.pc = "restamp"
    /\ conversation_timestamps' =
          SessSet(conversation_timestamps, th.session_id, "fresh")
    /\ Step("handler", [th EXCEPT !.pc = "idle", !.lost = @ \/ ~Kept(th)])
    /\ UNCHANGED <<conversation_histories, heap>>
    /\ SessionFrame

NextSessions ==
    \/ QueryAgent
    \/ LineWebhookPost
    \/ PruneLoop
    \/ TimePasses
    \/ \E t \in {"handler", "pruner"} : PruneScan(t)
    \/ \E t \in {"handler", "pruner"} : PruneNext(t)
    \/ \E t \in {"handler", "pruner"} : PruneGet(t)
    \/ \E t \in {"handler", "pruner"} : PrunePopHistory(t)
    \/ \E t \in {"handler", "pruner"} : PrunePopTimestamp(t)
    \/ EnsureSession
    \/ CreateHistory
    \/ StampSession
    \/ LookupHistory
    \/ AppendMessage
    \/ TrimHistory
    \/ RestampSession

SpecSessions == InitSessions /\ [][NextSessions]_vars


(***************************************************************************)
(* Properties.                                                             *)
(***************************************************************************)
Policies == {"equal", "rrf", "weighted"}
Done == pc = "done"
Returned == pc = "done" /\ outcome = "returned"

\* the positions occurring in the dense or the sparse candidate list
UnionPositions == Range(dense_idx_list) \cup Range(sparse_idx_list)

PosOf(res) == [j \in 1..Len(res) |-> res[j].pos]
PosTags(res) == [j \in 1..Len(res) |-> [pos |-> res[j].pos, retrieval |-> res[j].retrieval]]

\* a loaded corpus of n records, for the fixed examples of the claims
ArtOf(n) == [info |-> InfoOnDisk(n), keys |-> SortedKeys(InfoOnDisk(n))]

\* C1: under every policy and for every top_k >= 0 the returned list has at
\* most top_k entries and no corpus record is returned twice.
C1_AtMostTopKNoRecordTwice ==
    (Returned /\ method \in Policies) =>
        /\ Len(results) <= top_k
        /\ \A a, b \in 1..Len(results) :
              results[a].rec = results[b].rec => a = b

\* C2: under every policy the call returns without error exactly
\* min(top_k, |U|) entries, U the distinct positions occurring in the dense
\* or the sparse list, and every returned position is in U; an empty dense
\* list, an empty sparse list and two empty lists follow the same rule.
C2_EmptyListCases ==
    \A k \in 0..MaxTopK, m \in 0..2 : \A s \in Rankings(2, m, SparseScores) :
        LET si == [j \in 1..m |-> s[j][1]]
            ss == [j \in 1..m |-> s[j][2]]
            e == FuseEqual(<<>>, <<>>, si, ss, k, ArtOf(2), {})
            r == FuseRrf(<<>>, si, k, 60, ArtOf(2))
            w == FuseWeighted(<<>>, <<>>, si, ss, k, 3, ArtOf(2))
        IN  \A x \in {e, r, w} :
               /\ ~x.raised
               /\ Len(x.results) = Min(k, m)
               /\ Range(PosOf(x.results)) \subseteq Range(si)

C2_ExactlyMinTopKUnion ==
    /\ (Done /\ method \in Policies) =>
          /\ outcome = "returned"
          /\ Len(results) = Min(top_k, Cardinality(UnionPositions))
          /\ Range(PosOf(results)) \subseteq UnionPositions
    /\ pc = "start" => C2_EmptyListCases

\* full overlap under equal: both lists hold the same positions, the sparse
\* quota is a duplicate and the result still has min(top_k, |U|) entries
C2_Witness ==
    /\ Returned /\ method = "equal"
    /\ Range(sparse_idx_list) = Range(dense_idx_list)
    /\ sparse_idx_list[1] = dense_idx_list[1]
    /\ top_k = 2
    /\ Cardinality(UnionPositions) = 2
    /\ Len(results) = 2

\* the four blocks of C3, emitted in order, a position at most once
RECURSIVE EmitNew(_, _, _)
EmitNew(out, cands, tag) ==
    IF cands = <<>> THEN out
    ELSE IF \E j \in 1..Len(out) : out[j].pos = Head(cands)
    THEN EmitNew(out, Tail(cands), tag)
    ELSE EmitNew(Append(out, [pos |-> Head(cands), retrieval |-> tag]),
                 Tail(cands), tag)

FourBlocks(d_idx, s_idx, k) ==
    LET kd == IF k % 2 = 0 THEN k \div 2 ELSE k \div 2 + 1
        ks == k - kd
        b1 == [j \in 1..Min(kd, Len(d_idx)) |-> [pos |-> d_idx[j], retrieval |-> "dense"]]
        b2 == EmitNew(b1, Take(s_idx, ks), "sparse")
        b3 == EmitNew(b2, Drop(d_idx, kd), "dense")
        b4 == EmitNew(b3, Drop(s_idx, ks), "sparse")
    IN  Take(b4, k)

\* C3: under policy equal the output is the first top_k elements of: the
\* first ceil(top_k/2) dense candidates (dense), the first floor(top_k/2)
\* sparse candidates not yet emitted (sparse), the remaining dense
\* candidates not yet emitted (dense), the remaining sparse candidates not
\* yet emitted (sparse); dense [2,0,4], sparse [0,3,2], top_k 4 gives
\* positions [2,0,3,4].
C3_EqualFourBlocks ==
    /\ (Done /\ method = "equal") =>
          /\ outcome = "returned"
          /\ PosTags(results) = FourBlocks(dense_idx_list, sparse_idx_list, top_k)
    /\ pc = "start" =>
          PosOf(FuseEqual(<<2, 0, 4>>, <<9, 8, 3>>, <<0, 3, 2>>, <<5, 4, 1>>,
                          4, ArtOf(5), {}).results) = <<2, 0, 3, 4>>

\* a call with an odd top_k where the sparse primary block skips a position
\* already emitted and the dense overflow block tops the result up
C3_Witness ==
    /\ Returned /\ method = "equal" /\ top_k = 3
    /\ sparse_idx_list # <<>> /\ sparse_idx_list[1] = dense_idx_list[2]
    /\ Len(results) = 3
    /\ results[2].retrieval = "dense"
    /\ results[3].retrieval = "dense"
    /\ results[3].pos = dense_idx_list[3]
    /\ results[3].pos >= 0

\* C4: under policy equal, disjoint lists holding at least ceil(top_k/2)
\* dense and floor(top_k/2) sparse candidates give exactly ceil(top_k/2)
\* dense-tagged entries followed by floor(top_k/2) sparse-tagged entries,
\* each with the raw score of its own modality (top_k = 6: 3 and 3).
C4_Shape(res, d_idx, d_sim, s_idx, s_sim, k) ==
    LET kd == (k + 1) \div 2 IN
    /\ Len(res) = k
    /\ \A j \in 1..kd :
          /\ res[j].retrieval = "dense"
          /\ res[j].pos = d_idx[j]
          /\ FracEq(res[j].score, <<d_sim[j], 10>>)
    /\ \A j \in kd + 1..k :
          /\ res[j].retrieval = "sparse"
          /\ res[j].pos = s_idx[j - kd]
          /\ FracEq(res[j].score, <<s_sim[j - kd], 1>>)

C4_EqualDisjointSplit ==
    /\ ( /\ Done /\ method = "equal"
         /\ Range(dense_idx_list) \cap Range(sparse_idx_list) = {}
         /\ Len(dense_idx_list) >= (top_k + 1) \div 2
         /\ Len(sparse_idx_list) >= top_k \div 2 ) =>
          /\ outcome = "returned"
          /\ C4_Shape(results, dense_idx_list, dense_sim_list,
                      sparse_idx_list, sparse_sim_list, top_k)
    /\ pc = "start" =>
          C4_Shape(FuseEqual(<<0, 1, 2>>, <<5, 5, 0>>, <<3, 4, 5>>, <<2, 1, 1>>,
                             6, ArtOf(6), {}).results,
                   <<0, 1, 2>>, <<5, 5, 0>>, <<3, 4, 5>>, <<2, 1, 1>>, 6)

C4_Witness ==
    /\ Returned /\ method = "equal" /\ top_k = 2
    /\ Range(dense_idx_list) \cap Range(sparse_idx_list) = {}
    /\ Len(results) = 2
    /\ results[1].retrieval = "dense" /\ results[2].retrieval = "sparse"
    /\ results[2].score[1] > 0


\* the weighted branch's view of the call in progress
W_dense_map == DictFromZip(dense_idx_list, dense_sim_list)
W_sparse_map == DictFromZip(sparse_idx_list, sparse_sim_list)
W_cand == WeightedCand(W_dense_map, W_sparse_map)
W_d_norm == WeightedDNorm(W_dense_map, W_cand)
W_s_norm == WeightedSNorm(W_sparse_map, W_cand)
W_fused(j) == WeightedScore(alpha, W_d_norm[j], W_s_norm[j])

\* (1 - alpha) * s and alpha * d
SparseTermOnly(s) == <<(5 - alpha) * s[1], 5 * s[2]>>
DenseTermOnly(d) == <<alpha * d[1], 5 * d[2]>>

\* C5: under policy weighted, when all scores of the dense list are equal,
\* the dense-normalized value of every position of the union is 0 and its
\* fused score is (1 - alpha) times its sparse-normalized score.
C5_EqualDenseScoresContributeZero ==
    ( /\ Done /\ method = "weighted"
      /\ dense_sim_list # <<>>
      /\ \A j \in 1..Len(dense_sim_list) : dense_sim_list[j] = dense_sim_list[1] ) =>
        \A j \in 1..Len(W_cand) :
           /\ W_d_norm[j][1] = 0
           /\ FracEq(W_fused(j), SparseTermOnly(W_s_norm[j]))

\* C6: under policy weighted a position of the union that is absent from a
\* list has normalized value 0 for that modality: dense-absent positions
\* score (1 - alpha) * sparse_normalized, sparse-absent ones
\* alpha * dense_normalized.
C6_AbsentModalityContributesZero ==
    (Done /\ method = "weighted") =>
        \A j \in 1..Len(W_cand) :
           /\ W_cand[j] \notin Range(dense_idx_list) =>
                 /\ W_d_norm[j][1] = 0
                 /\ FracEq(W_fused(j), SparseTermOnly(W_s_norm[j]))
           /\ W_cand[j] \notin Range(sparse_idx_list) =>
                 /\ W_s_norm[j][1] = 0
                 /\ FracEq(W_fused(j), DenseTermOnly(W_d_norm[j]))

\* <<position, score>> pairs: a comes before b when its score is higher, or
\* equal and its position lower
RanksBefore(a, b) ==
    \/ FracLess(b[2], a[2])
    \/ FracEq(a[2], b[2]) /\ a[1] < b[1]

RECURSIVE RankedList(_)
RankedList(S) ==
    IF S = {} THEN <<>>
    ELSE LET best == CHOOSE x \in S : \A y \in S \ {x} : RanksBefore(x, y)
         IN  <<best>> \o RankedList(S \ {best})

SameRanking(res, want, tag) ==
    /\ Len(res) = Len(want)
    /\ \A j \in 1..Len(res) :
          /\ res[j].pos = want[j][1]
          /\ FracEq(res[j].score, want[j][2])
          /\ res[j].retrieval = tag

\* C7: under policy weighted the result is the first top_k elements of the
\* union ordered by descending fused score, equal scores by ascending
\* position; every result is tagged weighted and carries its fused score.
C7_WeightedOrder ==
    (Done /\ method = "weighted") =>
        /\ outcome = "returned"
        /\ SameRanking(results,
                       Take(RankedList({<<W_cand[j], W_fused(j)>> : j \in 1..Len(W_cand)}),
                            top_k),
                       "weighted")

\* two positions tie and both are returned
C7_Witness ==
    /\ Returned /\ method = "weighted"
    /\ Len(results) = 2
    /\ FracEq(results[1].score, results[2].score)
    /\ results[1].score[1] > 0
    /\ Cardinality(UnionPositions) > 2

\* the rrf branch's view of the call in progress
R_dense_rank == RankDict(dense_idx_list)
R_sparse_rank == RankDict(sparse_idx_list)
R_scores == {<<i, RrfScore(R_dense_rank, R_sparse_rank, rrf_k, i)>> : i \in UnionPositions}

\* C8: under policy rrf the result is the first top_k elements of the union
\* ordered by descending fused score, equal scores by ascending position,
\* whatever the position values; every result is tagged rrf.
C8_RrfOrder ==
    (Done /\ method = "rrf") =>
        /\ outcome = "returned"
        /\ SameRanking(results, Take(RankedList(R_scores), top_k), "rrf")

\* 1-based ranks of position i in a list
RanksIn(list, i) == {j \in 1..Len(list) : list[j] = i}

\* sum of 1/(rrf_k + rank) over the ranks given
RECURSIVE RecipSum(_, _)
RecipSum(kk, ranks) ==
    IF ranks = {} THEN <<0, 1>>
    ELSE LET r == CHOOSE x \in ranks : TRUE
         IN  FracAdd(<<1, kk + r>>, RecipSum(kk, ranks \ {r}))

\* C9: under policy rrf (rrf_k > 0) the fused score of a position is the
\* sum over the lists containing it of 1/(rrf_k + its rank in the list); a
\* position ranked 1 in both lists scores 2/(rrf_k + 1), more than the
\* 1/(rrf_k + 1) of a position ranked 1 in one list only, and comes first.
C9_RrfScores ==
    (Done /\ method = "rrf" /\ rrf_k > 0) =>
        /\ outcome = "returned"
        /\ \A j \in 1..Len(results) :
              LET i == results[j].pos
                  rd == RanksIn(dense_idx_list, i)
                  rs == RanksIn(sparse_idx_list, i)
              IN  (Cardinality(rd) <= 1 /\ Cardinality(rs) <= 1) =>
                    /\ FracEq(results[j].score,
                              FracAdd(RecipSum(rrf_k, rd), RecipSum(rrf_k, rs)))
                    /\ (rd = {1} /\ rs = {1}) =>
                          /\ FracEq(results[j].score, <<2, rrf_k + 1>>)
                          /\ j = 1
                    /\ (rd \cup rs = {1} /\ (rd = {} \/ rs = {})) =>
                          /\ FracEq(results[j].score, <<1, rrf_k + 1>>)
                          /\ FracLess(results[j].score, <<2, rrf_k + 1>>)
        /\ (top_k >= 1 /\ sparse_idx_list # <<>>
               /\ dense_idx_list[1] = sparse_idx_list[1]) =>
              results[1].pos = dense_idx_list[1]

\* a position ranked first by both sources, returned ahead of another one
C9_Witness ==
    /\ Returned /\ method = "rrf" /\ rrf_k = 60
    /\ Len(results) = 2
    /\ sparse_idx_list # <<>>
    /\ dense_idx_list[1] = sparse_idx_list[1]
    /\ results[1].pos = dense_idx_list[1]
    /\ results[1].score = <<122, 3721>>

C11_InvalidMethodFails ==
    (Done /\ method \notin {"equal", "weighted", "rrf"}) =>
        /\ outcome \in {"ValueError", "IndexError"}
        /\ results = <<>>

\* a method that differs from a policy name in case only
C11_Witness ==
    /\ Done /\ method = "Equal" /\ top_k = 2
    /\ outcome = "ValueError"
    /\ Len(dense_idx_list) >= 2 /\ sparse_idx_list # <<>>
    /\ results = <<>>


\* C12: when the dense fetch count max(top_k_dense, top_k) exceeds the
\* corpus size N, the dense candidate list handed to fusion holds exactly
\* the positions 0..N-1, each once, and no placeholder entry such as -1.
C12_DenseListIsTheCorpus ==
    (pc \in {"sparse", "fuse", "done"} /\ k_dense_fetch > bundle.ntotal) =>
        /\ Len(dense_idx_list) = bundle.ntotal
        /\ IsInjective(dense_idx_list)
        /\ Range(dense_idx_list) = 0..bundle.ntotal - 1

\* C13: a candidate position outside 0..N-1, negative ones included, is
\* never materialized to a corpus record and never skipped: a call whose
\* fused positions hold one ends in an error.
C13_OutOfBoundsFailsLoudly ==
    (Done /\ method \in Policies) =>
        /\ Returned =>
              \A j \in 1..Len(results) : results[j].pos \in 0..bundle.ntotal - 1
        /\ outcome = "IndexError" =>
              \E i \in UnionPositions : i \notin 0..bundle.ntotal - 1

\* the record the bundle holds for a fused position
StoredRecord(i) ==
    InfoOnDisk(bundle.ntotal)[PyIndex(SortedKeys(bundle.info), i)[1]]

\* C14: hybrid_search leaves the loaded corpus unchanged: after any sequence
\* of calls every stored record has the fields and values it had at load
\* time, every result record is a copy of the stored one, and the same
\* position materialized in two calls yields the same record apart from
\* score and retrieval.
C14_CorpusUnchanged ==
    /\ bundle.info = InfoOnDisk(bundle.ntotal)
    /\ (call_no >= 1) => info = InfoOnDisk(bundle.ntotal)
    /\ \A j \in 1..Len(results) : results[j].rec = StoredRecord(results[j].pos)
    /\ \A a \in 1..Len(results), b \in 1..Len(first.results) :
          results[a].pos = first.results[b].pos => results[a].rec = first.results[b].rec

\* the second call of a query materializes a position the first call
\* materialized too
C14_Witness ==
    /\ Returned /\ call_no = 2 /\ method = "weighted"
    /\ Len(results) = 3 /\ Len(first.results) = 3
    /\ results[3].pos = first.results[3].pos
    /\ results[3].pos >= 0
    /\ results[3].rec = first.results[3].rec
    /\ info = bundle.info

\* C15: under policy equal every position among the first ceil(top_k/2)
\* dense candidates and every position among the first floor(top_k/2)
\* sparse candidates appears in the result, under either tag, for every
\* top_k >= 0 and any overlap of the two lists.
C15_EqualMinimumPresence ==
    (Done /\ method = "equal") =>
        /\ outcome = "returned"
        /\ \A j \in 1..Min((top_k + 1) \div 2, Len(dense_idx_list)) :
              dense_idx_list[j] \in Range(PosOf(results))
        /\ \A j \in 1..Min(top_k \div 2, Len(sparse_idx_list)) :
              sparse_idx_list[j] \in Range(PosOf(results))

\* the sparse quota holds a position that no dense candidate holds, and the
\* dense list alone could have filled the result
C15_Witness ==
    /\ Returned /\ method = "equal" /\ top_k = 2
    /\ Len(dense_idx_list) = 2 /\ PadLabel \notin Range(dense_idx_list)
    /\ Len(sparse_idx_list) = 2
    /\ sparse_idx_list[1] \notin Range(dense_idx_list)
    /\ sparse_idx_list[2] = dense_idx_list[1]
    /\ Len(results) = 2
    /\ results[2].pos = sparse_idx_list[1]
    /\ results[2].retrieval = "sparse"

\* C17: in a call with an invalid method the error is raised before the
\* artifact bundle is loaded and before the dense or the sparse candidate
\* source is queried.
C17_InvalidMethodFailsBeforeLoad ==
    (call_no >= 1 /\ method \notin Policies) =>
        /\ pc = "done" /\ outcome = "ValueError"
        /\ info = <<>> /\ keys = <<>>
        /\ dense_idx_list = <<>> /\ sparse_idx_list = <<>>


\* what the sparse source returned for the scores of the call
SparseTopByScore ==
    /\ Len(sparse_idx_list) = Min(k_sparse_fetch, bundle.ntotal)
    /\ IsInjective(sparse_idx_list)
    /\ Range(sparse_idx_list) \subseteq 0..bundle.ntotal - 1
    /\ sparse_sim_list = Gather(scores, sparse_idx_list)
    /\ \A o \in (0..bundle.ntotal - 1) \ Range(sparse_idx_list) :
          \A j \in 1..Len(sparse_idx_list) : scores[o + 1] <= sparse_sim_list[j]
    /\ NonIncreasing(sparse_sim_list)

SparseTiesAscending ==
    \A a, b \in 1..Len(sparse_idx_list) :
       (a < b /\ sparse_sim_list[a] = sparse_sim_list[b]) =>
          sparse_idx_list[a] < sparse_idx_list[b]

\* C16: the sparse source returns min(fetch_count, N) distinct positions
\* whose scores are the highest in the corpus, in descending score order,
\* positions of equal score in ascending position order, on the full-sort
\* path and on the partial-selection path.
C16_SparseTopByScoreTiesAscending ==
    Done => (SparseTopByScore /\ SparseTiesAscending)


\* no request is in _append_history and no thread is pruning
Quiet == \A t \in DOMAIN threads : threads[t].pc = "idle"

\* C18: under any interleaving of _append_history(sid, ...) with
\* _prune_expired_sessions(), _append_history never fails on a missing
\* session; when it returns, conversation_histories[sid] exists, starts with
\* the system message and ends with the appended message; and after both
\* finish the two dictionaries hold the same session ids.
C18_SessionBookkeepingSafe ==
    /\ \A t \in DOMAIN threads :
          /\ threads[t].error = "none"
          /\ ~threads[t].lost
    /\ Quiet => DOMAIN conversation_histories = DOMAIN conversation_timestamps

=============================================================================
